---- MODULE Spec2Model ----
(***************************************************************************)
(* CoveoBlitz2016: the roster classes of Team.py (TeamMember, Team,        *)
(* ResponseWriter, createResponseWriter) and the request handler of        *)
(* server.py (createAnswer).                                               *)
(*                                                                         *)
(* Python values are records tagged by their type in field t; a str is a   *)
(* sequence of one-character strings held in field s.                      *)
(***************************************************************************)
EXTENDS Integers, Sequences, FiniteSets, TLC

VARIABLES listHeap, responseWriter, http, threads, ctor, loader

vars == <<listHeap, responseWriter, http, threads, ctor, loader>>

(***************************************************************************)
(* Python values                                                           *)
(***************************************************************************)
Str(s) == [t |-> "str", s |-> s]
Num(n) == [t |-> "int", n |-> n]
Bool(b) == [t |-> "bool", b |-> b]
None == [t |-> "None"]
\* A key that a dict does not hold.
Absent == [t |-> "absent"]

isinstance(v, type) == v.t = type

Digits == {"0", "1", "2", "3", "4", "5", "6", "7", "8", "9"}
Letters == {"a", "b", "c", "q", "x", "A", "B", "Q"}
\* \w of a str pattern: letters, digits and the underscore.
WordChars == Letters \cup Digits \cup {"_"}

DigitValue(c) ==
  CASE c = "0" -> 0 [] c = "1" -> 1 [] c = "2" -> 2 [] c = "3" -> 3
    [] c = "4" -> 4 [] c = "5" -> 5 [] c = "6" -> 6 [] c = "7" -> 7
    [] c = "8" -> 8 [] c = "9" -> 9

\* str.lower(), character by character.
LowerChar(c) ==
  CASE c = "A" -> "a" [] c = "B" -> "b" [] c = "Q" -> "q" [] OTHER -> c

lower(s) == [i \in 1..Len(s) |-> LowerChar(s[i])]

\* The str operator `needle in hay`.
Contains(needle, hay) ==
  \E i \in 0..(Len(hay) - Len(needle)) :
    SubSeq(hay, i + 1, i + Len(needle)) = needle

\* int(s) for a str s made of decimal digits: leading zeros are accepted and
\* dropped.  Any other text modelled here makes int() raise ValueError.
IntAccepts(s) == Len(s) > 0 /\ \A i \in 1..Len(s) : s[i] \in Digits

RECURSIVE IntPrefix(_, _)
IntPrefix(s, n) ==
  IF n = 0 THEN 0 ELSE 10 * IntPrefix(s, n - 1) + DigitValue(s[n])

int(s) == IntPrefix(s, Len(s))

(***************************************************************************)
(* re.match: the patterns of TeamMember.__init__ as syntax trees, and the  *)
(* set of positions a tree can end at when started at one of the           *)
(* positions P of the subject s (positions count the characters consumed). *)
(***************************************************************************)
Lit(c) == [op |-> "lit", c |-> c]
Class(k) == [op |-> "class", k |-> k]
Cat(parts) == [op |-> "cat", parts |-> parts]
Alt(parts) == [op |-> "alt", parts |-> parts]
\* body{lo,hi}; hi = -1 is no upper limit.
Rep(body, lo, hi) == [op |-> "rep", body |-> body, lo |-> lo, hi |-> hi]
Opt(body) == Rep(body, 0, 1)
Plus(body) == Rep(body, 1, -1)
Bol == [op |-> "bol"]
Eol == [op |-> "eol"]

ClassChars(k) == IF k = "d" THEN Digits ELSE WordChars

RECURSIVE Ends(_, _, _)
RECURSIVE CatEnds(_, _, _, _)
RECURSIVE RepEnds(_, _, _, _, _, _)

CatEnds(parts, i, s, P) ==
  IF i > Len(parts) \/ P = {} THEN P
  ELSE CatEnds(parts, i + 1, s, Ends(parts[i], s, P))

\* P: the positions reached after n repetitions of body.
RepEnds(body, lo, hi, s, P, n) ==
  LET here == IF n >= lo THEN P ELSE {}
  IN  IF P = {} \/ (hi >= 0 /\ n >= hi) \/ n > Len(s) THEN here
      ELSE here \cup RepEnds(body, lo, hi, s, Ends(body, s, P), n + 1)

Ends(node, s, P) ==
  CASE node.op = "lit" ->
         {p + 1 : p \in {x \in P : x < Len(s) /\ s[x + 1] = node.c}}
    [] node.op = "class" ->
         {p + 1 : p \in {x \in P : x < Len(s) /\ s[x + 1] \in ClassChars(node.k)}}
    [] node.op = "bol" -> {p \in P : p = 0}
    \* $ without MULTILINE: at the end, and just before a newline that ends
    \* the subject.
    [] node.op = "eol" ->
         {p \in P : p = Len(s) \/ (p = Len(s) - 1 /\ s[Len(s)] = "\n")}
    [] node.op = "cat" -> CatEnds(node.parts, 1, s, P)
    [] node.op = "alt" ->
         UNION {Ends(node.parts[i], s, P) : i \in 1..Len(node.parts)}
    [] node.op = "rep" -> RepEnds(node.body, node.lo, node.hi, s, P, 0)

re_match(pattern, s) == Ends(pattern, s, {0}) # {}

\* "^(1 )?\d{3}-\d{3}-\d{4}( x\d{1,5})?$"
PhonePattern ==
  Cat(<<Bol,
        Opt(Cat(<<Lit("1"), Lit(" ")>>)),
        Rep(Class("d"), 3, 3), Lit("-"),
        Rep(Class("d"), 3, 3), Lit("-"),
        Rep(Class("d"), 4, 4),
        Opt(Cat(<<Lit(" "), Lit("x"), Rep(Class("d"), 1, 5)>>)),
        Eol>>)

\* "^(\w+(\.|\-)?)+(\d+)?@\w+\.\w+$"
EmailPattern ==
  Cat(<<Bol,
        Plus(Cat(<<Plus(Class("w")), Opt(Alt(<<Lit("."), Lit("-")>>))>>)),
        Opt(Plus(Class("d"))),
        Lit("@"), Plus(Class("w")), Lit("."), Plus(Class("w")),
        Eol>>)

(***************************************************************************)
(* datetime                                                                *)
(***************************************************************************)
Datetime(y, m, d) == [t |-> "datetime", year |-> y, month |-> m, day |-> d]

IsLeap(y) == y % 4 = 0 /\ (y % 100 # 0 \/ y % 400 = 0)

DaysInMonth(y, m) ==
  IF m = 2 THEN (IF IsLeap(y) THEN 29 ELSE 28)
  ELSE IF m \in {4, 6, 9, 11} THEN 30 ELSE 31

\* datetime.datetime(year, month, day) raises ValueError outside these ranges.
DatetimeAccepts(y, m, d) ==
  y \in 1..9999 /\ m \in 1..12 /\ d \in 1..DaysInMonth(y, m)

\* Days from 0001-01-01 (ordinal 1) to the first of January of year y.
DaysBeforeYear(y) ==
  LET p == y - 1 IN p * 365 + p \div 4 - p \div 100 + p \div 400

RECURSIVE DaysBeforeMonth(_, _)
DaysBeforeMonth(y, m) ==
  IF m = 1 THEN 0 ELSE DaysBeforeMonth(y, m - 1) + DaysInMonth(y, m - 1)

toordinal(d) == DaysBeforeYear(d.year) + DaysBeforeMonth(d.year, d.month) + d.day

\* The ordinal of 1970-01-01.
EpochOrdinal == 719163

\* datetime.timestamp() of a naive datetime, the local zone being UTC.  The
\* conversion probes the day before, which for 0001-01-01 is in year 0:
\* "ValueError: year 0 is out of range".
TimestampRaises(d) == toordinal(d) = 1

timestamp(d) == (toordinal(d) - EpochOrdinal) * 86400

(***************************************************************************)
(* TeamMember.__init__: the exception raised, or "none" and the object.    *)
(***************************************************************************)
Raise(exc) == [exc |-> exc, obj |-> None]

TeamMemberFormatChecks(a) ==
  IF ~re_match(PhonePattern, a.phoneNumber.s) THEN Raise("ValueError")
  ELSE IF ~re_match(EmailPattern, a.email.s) THEN Raise("ValueError")
  ELSE IF TimestampRaises(a.dateProgramEnd) THEN Raise("ValueError")
  ELSE [exc |-> "none",
        obj |-> [firstName |-> a.firstName.s,
                 lastName |-> a.lastName.s,
                 email |-> a.email.s,
                 phoneNumber |-> a.phoneNumber.s,
                 educationalEstablishment |-> a.educationalEstablishment.s,
                 studyProgram |-> a.studyProgram.s,
                 dateProgramEnd |-> timestamp(a.dateProgramEnd),
                 inCharge |-> a.inCharge.b]]

TeamMember(a) ==
  IF ~isinstance(a.firstName, "str") THEN Raise("TypeError")
  ELSE IF ~isinstance(a.lastName, "str") THEN Raise("TypeError")
  ELSE IF ~isinstance(a.email, "str") THEN Raise("TypeError")
  ELSE IF ~isinstance(a.phoneNumber, "str") THEN Raise("TypeError")
  ELSE IF ~isinstance(a.educationalEstablishment, "str") THEN Raise("TypeError")
  ELSE IF ~isinstance(a.studyProgram, "str") THEN Raise("TypeError")
  ELSE IF ~isinstance(a.dateProgramEnd, "datetime") THEN Raise("TypeError")
  ELSE IF ~isinstance(a.inCharge, "bool") THEN Raise("TypeError")
  ELSE TeamMemberFormatChecks(a)

(***************************************************************************)
(* Team and ResponseWriter.  A list object lives in listHeap and is held   *)
(* by reference; DefaultList is the list that the default argument         *)
(* teamMembers=[] of Team.__init__ creates once, when the def runs.        *)
(***************************************************************************)
DefaultList == "Team.__init__.teamMembers"

TeamName ==
  <<"B", "e", "a", "u", "t", "i", "f", "u", "l", " ", "B", "r", "o", "w", "n">>

Team(teamName, teamMembers) ==
  IF ~isinstance(teamName, "str") THEN Raise("TypeError")
  ELSE [exc |-> "none",
        obj |-> [t |-> "Team", teamName |-> teamName.s, teamMembers |-> teamMembers]]

\* Team.serializableRepresentation with the comprehension starting at the
\* second member.
serializableRepresentationSkipsFirst(team, heap) ==
  [teamName |-> team.teamName, teamMembers |-> Tail(heap[team.teamMembers])]

\* Team.serializableRepresentation: the name and the members' __dict__s.
serializableRepresentation(team, heap) ==
  [teamName |-> team.teamName, teamMembers |-> heap[team.teamMembers]]

ResponseWriter(team) ==
  IF ~isinstance(team, "Team") THEN Raise("TypeError")
  ELSE [exc |-> "none", obj |-> [team |-> team, matchedParagraphs |-> <<>>]]

\* __serializableRepresentation and serializeJSON.
serializeJSON(self, heap) ==
  LET representation == serializableRepresentation(self.team, heap)
  IN  [teamName |-> representation.teamName,
       teamMembers |-> representation.teamMembers,
       matchedParagraphs |-> self.matchedParagraphs]

(***************************************************************************)
(* dict, list and the operators createAnswer and parseRequest apply.       *)
(***************************************************************************)
\* items: the dict's (key, value) pairs in iteration order, keys distinct.
Dict(items) == [t |-> "dict", items |-> items]
List(elems) == [t |-> "list", elems |-> elems]
Item(k, v) == [k |-> k, v |-> v]

KeyQ == <<"q">>
KeyParagraphs == <<"p", "a", "r", "a", "g", "r", "a", "p", "h", "s">>

HasKey(d, key) == \E i \in 1..Len(d.items) : d.items[i].k = key

\* d[key], or Absent where Python raises KeyError.
GetItem(d, key) ==
  IF HasKey(d, key)
  THEN d.items[CHOOSE i \in 1..Len(d.items) : d.items[i].k = key].v
  ELSE Absent

\* bool(v), as `not v` uses it.
Truthy(v) ==
  CASE v.t = "None" -> FALSE
    [] v.t = "dict" -> v.items # <<>>
    [] v.t = "list" -> v.elems # <<>>
    [] v.t = "str" -> v.s # <<>>
    [] v.t = "int" -> v.n # 0
    [] v.t = "bool" -> v.b

\* `'q' in v` raises TypeError for a value that is no container.
InRaises(v) == v.t \notin {"dict", "list", "str"}

QIn(v) ==
  CASE v.t = "dict" -> HasKey(v, KeyQ)
    [] v.t = "list" ->
         \E i \in 1..Len(v.elems) : v.elems[i].t = "str" /\ v.elems[i].s = KeyQ
    [] v.t = "str" -> Contains(KeyQ, v.s)

\* The turn of the loop with paragraph.lower() left out.
ParagraphStepNoLower(self, matchingString, item) ==
  IF ~isinstance(item.v, "str") THEN [exc |-> "AttributeError", self |-> self]
  ELSE IF Contains(matchingString, item.v.s)
  THEN IF IntAccepts(item.k)
       THEN [exc |-> "none",
             self |-> [self EXCEPT !.matchedParagraphs = Append(@, int(item.k))]]
       ELSE [exc |-> "ValueError", self |-> self]
  ELSE [exc |-> "none", self |-> self]

\* One turn of the loop of parseRequest.
ParagraphStep(self, matchingString, item) ==
  IF ~isinstance(item.v, "str") THEN [exc |-> "AttributeError", self |-> self]
  ELSE IF Contains(matchingString, lower(item.v.s))
  THEN IF IntAccepts(item.k)
       THEN [exc |-> "none",
             self |-> [self EXCEPT !.matchedParagraphs = Append(@, int(item.k))]]
       ELSE [exc |-> "ValueError", self |-> self]
  ELSE [exc |-> "none", self |-> self]

RECURSIVE ParseLoop(_, _, _, _)
ParseLoop(self, matchingString, items, i) ==
  IF i > Len(items) THEN [exc |-> "none", self |-> self]
  ELSE LET r == ParagraphStep(self, matchingString, items[i])
       IN  IF r.exc # "none" THEN r
           ELSE ParseLoop(r.self, matchingString, items, i + 1)

\* What parseRequest does before its loop: the exception raised, or "none".
ParsePrologue(request) ==
  IF ~isinstance(request, "dict") THEN "TypeError"
  ELSE IF ~HasKey(request, KeyQ) THEN "KeyError"
  ELSE IF ~isinstance(GetItem(request, KeyQ), "str") THEN "AttributeError"
  ELSE IF ~HasKey(request, KeyParagraphs) THEN "KeyError"
  ELSE IF ~isinstance(GetItem(request, KeyParagraphs), "dict") THEN "AttributeError"
  ELSE "none"

parseRequest(self, request) ==
  IF ParsePrologue(request) # "none"
  THEN [exc |-> ParsePrologue(request), self |-> self]
  ELSE ParseLoop(self, lower(GetItem(request, KeyQ).s),
                 GetItem(request, KeyParagraphs).items, 1)

\* createAnswer without its clear().
ClearMatchedLeftOut(self) == self

\* responseWriter.matchedParagraphs.clear()
ClearMatched(self) == [self EXCEPT !.matchedParagraphs = <<>>]

\* The guard of createAnswer: "abort" (400), "TypeError" (the membership
\* test raised) or "pass".
RequestGuard(json) ==
  IF ~Truthy(json) THEN "abort"
  ELSE IF InRaises(json) THEN "TypeError"
  ELSE IF ~QIn(json) THEN "abort"
  ELSE "pass"

(***************************************************************************)
(* createResponseWriter: the members file is the list json.load returns.   *)
(***************************************************************************)
RECURSIVE SplitFrom(_, _, _, _)
\* str.split(sep): cur is the piece being read, from position i on.
SplitFrom(s, sep, i, cur) ==
  IF i > Len(s) THEN <<cur>>
  ELSE IF s[i] = sep THEN <<cur>> \o SplitFrom(s, sep, i + 1, <<>>)
  ELSE SplitFrom(s, sep, i + 1, Append(cur, s[i]))

split(s, sep) == SplitFrom(s, sep, 1, <<>>)

\* The body of the loop up to the TeamMember built from one entry.
LoadMember(member) ==
  LET endDate == split(member.dateProgramEnd.s, "/")
  IN  IF Len(endDate) < 3 THEN Raise("IndexError")
      ELSE IF \E i \in 1..3 : ~IntAccepts(endDate[i]) THEN Raise("ValueError")
      ELSE IF ~DatetimeAccepts(int(endDate[3]), int(endDate[2]), int(endDate[1]))
      THEN Raise("ValueError")
      ELSE TeamMember([firstName |-> member.firstName,
                       lastName |-> member.lastName,
                       email |-> member.email,
                       phoneNumber |-> member.phoneNumber,
                       educationalEstablishment |-> member.educationalEstablishment,
                       studyProgram |-> member.studyProgram,
                       dateProgramEnd |->
                         Datetime(int(endDate[3]), int(endDate[2]), int(endDate[1])),
                       inCharge |-> member.inCharge])

RECURSIVE LoadLoop(_, _, _, _)
\* team.teamMembers.append(teamMember) for each entry, until one raises.
LoadLoop(heap, team, teamMembers, i) ==
  IF i > Len(teamMembers) THEN [exc |-> "none", heap |-> heap]
  ELSE LET m == LoadMember(teamMembers[i])
       IN  IF m.exc # "none" THEN [exc |-> m.exc, heap |-> heap]
           ELSE LoadLoop([heap EXCEPT ![team.teamMembers] = Append(@, m.obj)],
                         team, teamMembers, i + 1)

\* The exception raised or "none", the heap afterwards, and the writer
\* returned.
createResponseWriter(heap, file) ==
  LET team == Team(Str(TeamName), DefaultList).obj
      loaded == LoadLoop(heap, team, file, 1)
  IN  IF loaded.exc # "none"
      THEN [exc |-> loaded.exc, heap |-> loaded.heap, obj |-> None]
      ELSE [exc |-> "none", heap |-> loaded.heap, obj |-> ResponseWriter(team).obj]

(***************************************************************************)
(* Texts                                                                   *)
(***************************************************************************)
PhoneCore == <<"5", "1", "4", "-", "5", "5", "5", "-", "0", "1", "9", "9">>
GoodPhone == Str(PhoneCore)
GoodEmail == Str(<<"a", ".", "b", "@", "c", ".", "q">>)
EndDate2017 == Str(<<"1", "/", "0", "6", "/", "2", "0", "1", "7">>)
EndDate2018 == Str(<<"3", "1", "/", "1", "2", "/", "2", "0", "1", "8">>)

EntryA ==
  [firstName |-> Str(<<"a">>), lastName |-> Str(<<"b">>), email |-> GoodEmail,
   phoneNumber |-> GoodPhone, educationalEstablishment |-> Str(<<"x">>),
   studyProgram |-> Str(<<"c">>), dateProgramEnd |-> EndDate2017,
   inCharge |-> Bool(TRUE)]

EntryB ==
  [EntryA EXCEPT !.firstName = Str(<<"q">>), !.dateProgramEnd = EndDate2018,
                 !.inCharge = Bool(FALSE)]

\* An entry whose phone number TeamMember rejects.
EntryBad == [EntryA EXCEPT !.phoneNumber = Str(<<"5", "1", "4">>)]

\* The members file read at start-up.
MembersFile == <<EntryA, EntryB>>

(***************************************************************************)
(* Bounds and inputs                                                       *)
(***************************************************************************)
\* Requests handled one after another.
MaxRequests == 2
\* Paragraphs of one request.
MaxParagraphs == 2
\* Paragraphs of one of two concurrent requests.
MaxConcParagraphs == 2
\* Digits of the extension of the phone numbers tried.
MaxExtDigits == 6
\* Calls of createResponseWriter in one process.
MaxCalls == 2
\* Entries of a members file.
MaxFileEntries == 2

\* The item sequences of at most max items whose keys are taken from the
\* sequence keys, in its order, and whose values are taken from values.
ItemSeqs(keys, values, max) ==
  UNION {
    { [i \in 1..n |-> Item(keys[ix[i]], vs[i])] :
        ix \in {f \in [1..n -> 1..Len(keys)] : \A i \in 1..(n - 1) : f[i] < f[i + 1]},
        vs \in [1..n -> values] }
    : n \in 0..max }

ParagraphKeys == <<<<"1">>, <<"0", "1">>, <<"2">>, <<"x">>>>
ParagraphValues == {Str(<<"A", "b">>), Str(<<"b", "a">>), Num(7)}
\* Values of 'q' that are str, and the others: no 'q' and a number.
StrQValues == {Str(<<>>), Str(<<"a", "B">>)}
OtherQValues == {Absent, Num(5)}
ParagraphsValues ==
  {Absent, None} \cup
  {Dict(items) : items \in ItemSeqs(ParagraphKeys, ParagraphValues, MaxParagraphs)}

\* The paragraphs tried with a 'q' that is no str: parseRequest never reads
\* them.
FewParagraphsValues ==
  {Absent, None, Dict(<<>>), Dict(<<Item(<<"1">>, Str(<<"A", "b">>))>>)}

Entry(key, v) == IF v.t = "absent" THEN <<>> ELSE <<Item(key, v)>>

\* What request.get_json() returns: None for a request without a JSON body.
Bodies ==
  {Dict(Entry(KeyQ, q) \o Entry(KeyParagraphs, p)) :
     q \in StrQValues, p \in ParagraphsValues}
  \cup {Dict(Entry(KeyQ, q) \o Entry(KeyParagraphs, p)) :
          q \in OtherQValues, p \in FewParagraphsValues}
  \cup {None, List(<<>>), List(<<Str(KeyQ)>>), List(<<Str(<<"x">>)>>),
        Str(<<>>), Str(KeyQ), Str(<<"x">>), Num(0), Num(5), Bool(TRUE)}

(***************************************************************************)
(* server.py, requests handled one after another                           *)
(***************************************************************************)
\* responseWriter = Team.createResponseWriter(), at import.
Startup == createResponseWriter([r \in {DefaultList} |-> <<>>], MembersFile)

\* createAnswer on the writer self: the status of the response, whether
\* parseRequest was called, the writer when parseRequest returned or raised,
\* the body of a 200 response, and the writer afterwards.
Answer(self, heap, json) ==
  LET guard == RequestGuard(json)
      parsed == parseRequest(self, json)
  IN  IF guard = "abort"
      THEN [status |-> 400, called |-> FALSE, exc |-> "none", parsed |-> self,
            body |-> None, self |-> self]
      ELSE IF guard = "TypeError"
      THEN [status |-> 500, called |-> FALSE, exc |-> "TypeError", parsed |-> self,
            body |-> None, self |-> self]
      ELSE IF parsed.exc # "none"
      THEN [status |-> 500, called |-> TRUE, exc |-> parsed.exc,
            parsed |-> parsed.self, body |-> None, self |-> parsed.self]
      ELSE [status |-> 200, called |-> TRUE, exc |-> "none",
            parsed |-> parsed.self, body |-> serializeJSON(parsed.self, heap),
            self |-> ClearMatched(parsed.self)]

NoAnswer ==
  [status |-> 0, called |-> FALSE, exc |-> "none", parsed |-> None,
   body |-> None, self |-> None]

\* n: requests handled; request, answer: the last one and its outcome;
\* before, heapBefore: the writer and the lists when it arrived.
HttpIdle ==
  [n |-> 0, request |-> None, answer |-> NoAnswer,
   before |-> None, heapBefore |-> <<>>]

Threads == {1, 2}
ThreadIdle ==
  [pc |-> "idle", request |-> None, i |-> 0, status |-> 0, body |-> None,
   overlapped |-> FALSE]
ThreadsIdle == [t \in Threads |-> ThreadIdle]

CtorIdle == [phase |-> "idle", args |-> None, result |-> Raise("pending")]
LoaderIdle == <<>>

Init ==
  /\ listHeap = Startup.heap
  /\ responseWriter = Startup.obj
  /\ http = HttpIdle
  /\ threads = ThreadsIdle
  /\ ctor = CtorIdle
  /\ loader = LoaderIdle

createAnswer(json) ==
  /\ http.n < MaxRequests
  /\ LET answer == Answer(responseWriter, listHeap, json)
     IN  /\ http' = [http EXCEPT !.n = @ + 1, !.request = json, !.answer = answer,
                                 !.before = responseWriter, !.heapBefore = listHeap]
         /\ responseWriter' = answer.self
  /\ UNCHANGED <<listHeap, threads, ctor, loader>>

Next == \E json \in Bodies : createAnswer(json)

Spec == Init /\ [][Next]_vars

(***************************************************************************)
(* server.py, two requests handled by two threads against the one          *)
(* responseWriter.  A thread runs the guard and the lines of parseRequest  *)
(* before its loop on its own request; each turn of the loop, the          *)
(* serialization and the clear() are steps of their own.                   *)
(***************************************************************************)
ConcKeys == <<<<"1">>, <<"2">>, <<"3">>>>
ConcValues == {Str(<<"A", "b">>), Str(<<"c">>)}
ConcBodies ==
  {Dict(<<Item(KeyQ, Str(<<"B">>)), Item(KeyParagraphs, Dict(items))>>) :
     items \in ItemSeqs(ConcKeys, ConcValues, MaxConcParagraphs)}

Active(th) == th.pc \in {"loop", "clear"}

InitConc ==
  /\ listHeap = Startup.heap
  /\ responseWriter = Startup.obj
  /\ http = HttpIdle
  /\ threads = ThreadsIdle
  /\ ctor = CtorIdle
  /\ loader = LoaderIdle

\* Lines 18-22 of server.py and 143-146 of Team.py.
Begin(t, json) ==
  /\ threads[t].pc = "idle"
  /\ LET guard == RequestGuard(json)
         status == IF guard = "abort" THEN 400
                   ELSE IF guard = "TypeError" \/ ParsePrologue(json) # "none" THEN 500
                   ELSE 0
         meets == status = 0 /\ \E u \in Threads \ {t} : Active(threads[u])
     IN  threads' =
           [u \in Threads |->
              IF u = t
              THEN [threads[t] EXCEPT !.pc = IF status = 0 THEN "loop" ELSE "done",
                                      !.request = json, !.i = 1, !.status = status,
                                      !.overlapped = meets]
              ELSE [threads[u] EXCEPT !.overlapped = @ \/ (meets /\ Active(threads[u]))]]
  /\ UNCHANGED <<listHeap, responseWriter, http, ctor, loader>>

\* One turn of the loop of parseRequest, lines 148-150 of Team.py.
LoopStep(t) ==
  /\ threads[t].pc = "loop"
  /\ threads[t].i <= Len(GetItem(threads[t].request, KeyParagraphs).items)
  /\ LET r == ParagraphStep(responseWriter,
                            lower(GetItem(threads[t].request, KeyQ).s),
                            GetItem(threads[t].request, KeyParagraphs).items[threads[t].i])
     IN  /\ responseWriter' = r.self
         /\ threads' =
              [threads EXCEPT ![t] =
                 IF r.exc # "none" THEN [@ EXCEPT !.pc = "done", !.status = 500]
                 ELSE [@ EXCEPT !.i = @ + 1]]
  /\ UNCHANGED <<listHeap, http, ctor, loader>>

\* Lines 23-26 of server.py.
Serialize(t) ==
  /\ threads[t].pc = "loop"
  /\ threads[t].i > Len(GetItem(threads[t].request, KeyParagraphs).items)
  /\ threads' = [threads EXCEPT ![t] =
                   [@ EXCEPT !.pc = "clear",
                             !.body = serializeJSON(responseWriter, listHeap)]]
  /\ UNCHANGED <<listHeap, responseWriter, http, ctor, loader>>

\* Lines 28-30 of server.py.
Clear(t) ==
  /\ threads[t].pc = "clear"
  /\ responseWriter' = ClearMatched(responseWriter)
  /\ threads' = [threads EXCEPT ![t] = [@ EXCEPT !.pc = "done", !.status = 200]]
  /\ UNCHANGED <<listHeap, http, ctor, loader>>

NextConc ==
  \E t \in Threads :
    \/ \E json \in ConcBodies : Begin(t, json)
    \/ LoopStep(t)
    \/ Serialize(t)
    \/ Clear(t)

SpecConc == InitConc /\ [][NextConc]_vars

(***************************************************************************)
(* TeamMember(...) on one tuple of arguments                               *)
(***************************************************************************)
ArgNames ==
  {"firstName", "lastName", "email", "phoneNumber", "educationalEstablishment",
   "studyProgram", "dateProgramEnd", "inCharge"}

\* The arguments; ok[name] says whether the argument has the type asked.
MkArgs(ok, phone, email, date) ==
  [firstName |-> IF ok["firstName"] THEN Str(<<"a">>) ELSE Num(5),
   lastName |-> IF ok["lastName"] THEN Str(<<"b">>) ELSE None,
   email |-> IF ok["email"] THEN email ELSE Num(5),
   phoneNumber |-> IF ok["phoneNumber"] THEN phone ELSE Num(5),
   educationalEstablishment |->
     IF ok["educationalEstablishment"] THEN Str(<<"x">>) ELSE Num(5),
   studyProgram |-> IF ok["studyProgram"] THEN Str(<<"c">>) ELSE Bool(TRUE),
   dateProgramEnd |-> IF ok["dateProgramEnd"] THEN date ELSE EndDate2017,
   inCharge |-> IF ok["inCharge"] THEN Bool(TRUE) ELSE Num(1)]

AllOk == [a \in ArgNames |-> TRUE]

ExtText(n) == IF n = 0 THEN <<>> ELSE <<" ", "x">> \o [i \in 1..n |-> "7"]
PhoneBases ==
  {pre \o PhoneCore \o ExtText(n) : pre \in {<<>>, <<"1", " ">>}, n \in 0..MaxExtDigits}
EditChars == {"1", "-", " ", "x", "a", "\n"}
DeleteAt(s, i) == SubSeq(s, 1, i - 1) \o SubSeq(s, i + 1, Len(s))
InsertAt(s, i, c) == SubSeq(s, 1, i) \o <<c>> \o SubSeq(s, i + 1, Len(s))
\* s and the texts one edit away from it.
Edits(s) ==
  {s} \cup {DeleteAt(s, i) : i \in 1..Len(s)}
      \cup {[s EXCEPT ![i] = c] : i \in 1..Len(s), c \in EditChars}
      \cup {InsertAt(s, i, c) : i \in 0..Len(s), c \in EditChars}
PhoneInputs == UNION {Edits(b) : b \in PhoneBases}
EmailInputs ==
  Edits(GoodEmail.s) \cup {<<>>, <<"a", "@", "b">>, <<"a", "1", "@", "b", ".", "c">>}

Date2017 == Datetime(2017, 6, 1)
DateMin == Datetime(1, 1, 1)

CtorInputs ==
  {MkArgs(AllOk, Str(p), GoodEmail, Date2017) : p \in PhoneInputs}
  \cup {MkArgs(AllOk, GoodPhone, Str(e), Date2017) : e \in EmailInputs}
  \cup {MkArgs(ok, p, e, d) :
          ok \in [ArgNames -> BOOLEAN],
          p \in {GoodPhone, Str(PhoneCore \o <<"\n">>), Str(<<"5", "1", "4">>)},
          e \in {GoodEmail, Str(<<"a", "@", "b">>)},
          d \in {Date2017, DateMin}}

InitMember ==
  /\ listHeap = [r \in {DefaultList} |-> <<>>]
  /\ responseWriter = None
  /\ http = HttpIdle
  /\ threads = ThreadsIdle
  /\ ctor \in {[phase |-> "args", args |-> a, result |-> Raise("pending")] :
                 a \in CtorInputs}
  /\ loader = LoaderIdle

Construct ==
  /\ ctor.phase = "args"
  /\ ctor' = [ctor EXCEPT !.phase = "done", !.result = TeamMember(ctor.args)]
  /\ UNCHANGED <<listHeap, responseWriter, http, threads, loader>>

NextMember == Construct

SpecMember == InitMember /\ [][NextMember]_vars

(***************************************************************************)
(* Calls of createResponseWriter in one process                            *)
(***************************************************************************)
Files ==
  UNION {[1..n -> {EntryA, EntryB, EntryBad}] : n \in 0..MaxFileEntries}

InitLoader ==
  /\ listHeap = [r \in {DefaultList} |-> <<>>]
  /\ responseWriter = None
  /\ http = HttpIdle
  /\ threads = ThreadsIdle
  /\ ctor = CtorIdle
  /\ loader = LoaderIdle

\* loader: the calls made, each with its file, the exception it raised and
\* the writer it returned.
CallCreateResponseWriter(file) ==
  /\ Len(loader) < MaxCalls
  /\ listHeap' = createResponseWriter(listHeap, file).heap
  /\ loader' = Append(loader, [file |-> file,
                               exc |-> createResponseWriter(listHeap, file).exc,
                               obj |-> createResponseWriter(listHeap, file).obj])
  /\ UNCHANGED <<responseWriter, http, threads, ctor>>

NextLoader == \E file \in Files : CallCreateResponseWriter(file)

SpecLoader == InitLoader /\ [][NextLoader]_vars

(***************************************************************************)
(* Properties                                                              *)
(***************************************************************************)
Range(seq) == {seq[i] : i \in 1..Len(seq)}

\* A request as section 6 of the specification describes it: a dict with a
\* str 'q' and a 'paragraphs' dict of str values under keys int() accepts.
WellFormedRequest(json) ==
  /\ json.t = "dict"
  /\ HasKey(json, KeyQ) /\ GetItem(json, KeyQ).t = "str"
  /\ HasKey(json, KeyParagraphs) /\ GetItem(json, KeyParagraphs).t = "dict"
  /\ \A it \in Range(GetItem(json, KeyParagraphs).items) :
       it.v.t = "str" /\ IntAccepts(it.k)

\* int(k) for the keys k whose paragraph, lower-cased, contains q lower-cased.
MatchingIndices(json) ==
  {int(it.k) :
     it \in {x \in Range(GetItem(json, KeyParagraphs).items) :
               Contains(lower(GetItem(json, KeyQ).s), lower(x.v.s))}}

\* Whether the body holds "q": as a key, an element or a piece of text.
HoldsQ(json) ==
  CASE json.t = "dict" -> HasKey(json, KeyQ)
    [] json.t = "list" -> \E e \in Range(json.elems) : e = Str(KeyQ)
    [] json.t = "str" -> \E i \in 1..Len(json.s) : json.s[i] = "q"
    [] OTHER -> FALSE

\* C1: parseRequest on a well-formed request, called on a writer whose
\* matchedParagraphs is empty, returns normally and leaves matchedParagraphs
\* holding, as a set, exactly the indices of the paragraphs that contain the
\* query, case ignored.
C1_ExactMatchSet ==
  (http.n > 0 /\ WellFormedRequest(http.request)
              /\ http.before.matchedParagraphs = <<>>)
  => /\ http.answer.called
     /\ http.answer.exc = "none"
     /\ Range(http.answer.parsed.matchedParagraphs) = MatchingIndices(http.request)

\* A well-formed request handled on an empty list, whose query has an upper
\* case letter, with a paragraph that matches and one that does not.
C1_Witness ==
  /\ http.n > 0 /\ WellFormedRequest(http.request)
  /\ http.before.matchedParagraphs = <<>>
  /\ GetItem(http.request, KeyQ).s # lower(GetItem(http.request, KeyQ).s)
  /\ \E x, y \in Range(GetItem(http.request, KeyParagraphs).items) :
       /\ int(x.k) \in Range(http.answer.parsed.matchedParagraphs)
       /\ int(y.k) \notin Range(http.answer.parsed.matchedParagraphs)

\* C2: a request whose body is absent, empty or without 'q' is answered 400,
\* parseRequest is not called, and the writer and the roster are as before.
C2_MissingQIs400 ==
  (http.n > 0 /\ (~Truthy(http.request) \/ ~HoldsQ(http.request)))
  => /\ http.answer.status = 400
     /\ ~http.answer.called
     /\ responseWriter = http.before
     /\ listHeap = http.heapBefore

\* C3: a request is answered 200 with teamName, teamMembers and a list of
\* integers when its body holds 'q', and 400 when it does not; nothing else.
C3_TwoOutcomes ==
  http.n > 0
  => IF Truthy(http.request) /\ HoldsQ(http.request)
     THEN /\ http.answer.status = 200
          /\ http.answer.body.teamName = TeamName
          /\ http.answer.body.teamMembers = Startup.heap[DefaultList]
          /\ \A m \in Range(http.answer.body.matchedParagraphs) : m \in Int
     ELSE http.answer.status = 400

\* C4: matchedParagraphs is empty whenever a request starts being handled,
\* so a 200 response holds only indices of its own request's paragraphs.
C4_FreshPerRequest ==
  /\ responseWriter.matchedParagraphs = <<>>
  /\ (http.n > 0 /\ http.answer.status = 200)
     => \A m \in Range(http.answer.body.matchedParagraphs) :
          \E it \in Range(GetItem(http.request, KeyParagraphs).items) :
            IntAccepts(it.k) /\ int(it.k) = m

\* C6: handling requests leaves the team, its member list and the members as
\* they were at start-up, and every 200 response carries that roster.
C6_RosterStatic ==
  /\ responseWriter.team = Startup.obj.team
  /\ listHeap = Startup.heap
  /\ http.answer.status = 200
     => /\ http.answer.body.teamName = TeamName
        /\ http.answer.body.teamMembers = Startup.heap[Startup.obj.team.teamMembers]
        /\ Len(http.answer.body.teamMembers) = Len(MembersFile)

\* A 200 response given after a request that failed part-way through
\* parseRequest and left matchedParagraphs filled.
C6_Witness ==
  /\ http.n > 1
  /\ http.answer.status = 200
  /\ http.before.matchedParagraphs # <<>>
  /\ http.answer.body.teamMembers # <<>>

\* C8: the matchedParagraphs of a 200 response holds no integer twice, for
\* every paragraphs mapping whose keys int() accepts.
C8_NoDuplicates ==
  (/\ http.n > 0 /\ http.answer.status = 200
   /\ http.before.matchedParagraphs = <<>>
   /\ \A it \in Range(GetItem(http.request, KeyParagraphs).items) : IntAccepts(it.k))
  => \A i, j \in 1..Len(http.answer.body.matchedParagraphs) :
       i # j => http.answer.body.matchedParagraphs[i]
                  # http.answer.body.matchedParagraphs[j]

\* C7: with two requests holding 'q' handled concurrently, a 200 response
\* whose matchedParagraphs is not the match set of its own request can be
\* reached, and only by a request that ran while the other one was running.
C7_WrongOnlyWhenOverlapped ==
  \A t \in Threads :
    (/\ threads[t].pc = "done" /\ threads[t].status = 200
     /\ Range(threads[t].body.matchedParagraphs) # MatchingIndices(threads[t].request))
    => threads[t].overlapped

\* Both requests answered 200, one response holding an index that only the
\* other request matches, the other response without an index of its own.
C7_Witness ==
  \E t, u \in Threads :
    /\ t # u
    /\ threads[t].pc = "done" /\ threads[t].status = 200
    /\ threads[u].pc = "done" /\ threads[u].status = 200
    /\ Range(threads[t].body.matchedParagraphs) \ MatchingIndices(threads[t].request) # {}
    /\ MatchingIndices(threads[u].request) \ Range(threads[u].body.matchedParagraphs) # {}

\* The phone format in words: an optional "1 ", three digits, "-", three
\* digits, "-", four digits, an optional " x" with one to five digits, and
\* nothing else.
AllDigits(s, from, to) == \A i \in from..to : s[i] \in Digits
WellFormedPhone(s) ==
  \E pre \in {0, 2}, n \in 0..5 :
    /\ Len(s) = pre + 12 + (IF n = 0 THEN 0 ELSE n + 2)
    /\ pre = 2 => (s[1] = "1" /\ s[2] = " ")
    /\ AllDigits(s, pre + 1, pre + 3) /\ s[pre + 4] = "-"
    /\ AllDigits(s, pre + 5, pre + 7) /\ s[pre + 8] = "-"
    /\ AllDigits(s, pre + 9, pre + 12)
    /\ n > 0 => (s[pre + 13] = " " /\ s[pre + 14] = "x"
                 /\ AllDigits(s, pre + 15, pre + 14 + n))

TypesRight(a) ==
  /\ \A f \in {"firstName", "lastName", "email", "phoneNumber",
               "educationalEstablishment", "studyProgram"} : a[f].t = "str"
  /\ a.dateProgramEnd.t = "datetime"
  /\ a.inCharge.t = "bool"

\* C5: with every other argument valid, construction succeeds when the phone
\* number is well-formed and raises ValueError for every other text.
C5_PhoneFormatDecides ==
  (/\ ctor.phase = "done" /\ TypesRight(ctor.args)
   /\ re_match(EmailPattern, ctor.args.email.s)
   /\ ~TimestampRaises(ctor.args.dateProgramEnd))
  => IF WellFormedPhone(ctor.args.phoneNumber.s)
     THEN ctor.result.exc = "none"
     ELSE ctor.result.exc = "ValueError"

\* C9: construction succeeds exactly when every type is right and the phone
\* number and the email match their patterns; it raises TypeError when a
\* type is wrong and ValueError when the types are right and the phone
\* number or the email does not match; a raise leaves no member.
C9_ConstructionOutcome ==
  ctor.phase = "done"
  => LET a == ctor.args
         formats == /\ re_match(PhonePattern, a.phoneNumber.s)
                    /\ re_match(EmailPattern, a.email.s)
     IN  /\ ctor.result.exc = "none" <=> (TypesRight(a) /\ formats)
         /\ ~TypesRight(a) => ctor.result.exc = "TypeError"
         /\ (TypesRight(a) /\ ~formats) => ctor.result.exc = "ValueError"
         /\ ctor.result.exc # "none" => ctor.result.obj = None

\* The members a valid file describes, in file order.
FileValid(file) == \A i \in 1..Len(file) : LoadMember(file[i]).exc = "none"
MembersOf(file) == [i \in 1..Len(file) |-> LoadMember(file[i]).obj]

\* C10: every call of createResponseWriter on a valid file returns a writer
\* with empty matchedParagraphs and the team "Beautiful Brown" whose members
\* are those of the file, in file order, whatever calls come before or after.
C10_EachCallLoadsItsFile ==
  \A i \in 1..Len(loader) :
    FileValid(loader[i].file)
    => /\ loader[i].exc = "none"
       /\ loader[i].obj.matchedParagraphs = <<>>
       /\ loader[i].obj.team.teamName = TeamName
       /\ listHeap[loader[i].obj.team.teamMembers] = MembersOf(loader[i].file)

====
